---- MODULE Spec2Model ----
(***************************************************************************)
(* Model of the Grommet provider component                                 *)
(* (src/src/js/components/Grommet/Grommet.js): theme composition, message  *)
(* composition, device classification and the responsive coordinator.      *)
(*                                                                         *)
(* JavaScript values are modelled as follows.                              *)
(*   - a nested object is a "tree": a function from paths (sequences of    *)
(*     keys) to leaf values; a bare leaf is the tree whose only path is    *)
(*     << >>; undefined is the tree with no path at all;                   *)
(*   - a string that is tested by a regular expression is a sequence of    *)
(*     tokens;                                                             *)
(*   - a breakpoint name or a mode is a string, and the string             *)
(*     "undefined" stands for the JavaScript value undefined.              *)
(***************************************************************************)
EXTENDS Integers, Sequences, FiniteSets, TLC

VARIABLES
    hasDOM,             \* the environment has the globals window and document
    phase,              \* position of the provider in its life
    themeProp,          \* props.theme
    background,         \* props.background
    themeMode,          \* props.themeMode
    dir,                \* props.dir
    userAgent,          \* props.userAgent
    containerTargetProp,\* props.containerTarget
    messagesProp,       \* props.messages
    theme,              \* the memoised theme (useMemo, line 75)
    containerTarget,    \* value published by ContainerTargetContext
    stateResponsive,    \* useState (line 73)
    responsive,         \* value published by ResponsiveContext at the last render
    width,              \* document.body.clientWidth
    listeners,          \* window's 'resize' listeners: the onResize closures
    cleanup,            \* the closure the effect's cleanup will remove
    effectPending,      \* the last render scheduled the effect of line 131
    failed,             \* an exception escaped the provider
    lastEvent,          \* the operation that produced this state
    renders,            \* number of theme recomputations so far
    messages,           \* the memoised message table (useMemo, line 109)
    opts,               \* argument of the published format function
    formatted,          \* its result
    deviceResult        \* result of deviceResponsive

propVars == <<themeProp, background, themeMode, dir, userAgent,
              containerTargetProp, messagesProp>>
liveVars == <<theme, containerTarget, stateResponsive, responsive, width,
              listeners, cleanup, effectPending, failed, renders>>
pureVars == <<messages, opts, formatted, deviceResult>>
vars == <<hasDOM, phase, lastEvent, propVars, liveVars, pureVars>>

Undefined == "undefined"

(***************************************************************************)
(* Trees.                                                                  *)
(***************************************************************************)
EmptyTree == [p \in {} |-> Undefined]
LeafTree(v) == [p \in {<< >>} |-> v]
\* the empty object {}
EmptyObject == "{}"

IsUndefined(t) == DOMAIN t = {}
IsLeaf(t) == DOMAIN t = {<< >>}
LeafOf(t) == t[<< >>]

HasPrefix(p, q) == Len(q) <= Len(p) /\ SubSeq(p, 1, Len(q)) = q

\* obj.k1.k2..., undefined when a key is missing
Sub(t, q) ==
    LET under == {p \in DOMAIN t : HasPrefix(p, q)}
    IN  [r \in {SubSeq(p, Len(q) + 1, Len(p)) : p \in under} |-> t[q \o r]]

\* a string-valued property, "undefined" when missing
Get(t, p) == IF p \in DOMAIN t THEN t[p] ELSE Undefined

\* JavaScript truthiness of a tree whose leaf, if any, is a string
Truthy(t) == ~IsUndefined(t) /\ ~(IsLeaf(t) /\ LeafOf(t) = "")

\* JavaScript truthiness of a string-or-undefined value
TruthyStr(s) == s # Undefined /\ s # ""

(***************************************************************************)
(* Collaborators of Grommet.js that live in other files of the repository  *)
(* (utils, themes): modelled from their documented contracts.              *)
(***************************************************************************)

\* utils/object deepMerge: keys of both sides; nested objects recurse,
\* otherwise the override's value wins; an empty object in the override
\* leaves an object of the base as it is.
deepMerge(base, override) ==
    LET over == {q \in DOMAIN override :
                    ~(override[q] = EmptyObject
                      /\ \E p \in DOMAIN base : HasPrefix(p, q) /\ p # q)
                    /\ ~(override[q] = EmptyObject /\ q \in DOMAIN base
                         /\ base[q] = EmptyObject)}
        keep == {p \in DOMAIN base :
                    ~\E q \in over : HasPrefix(p, q) \/ HasPrefix(q, p)}
    IN  [p \in keep \cup over |-> IF p \in over THEN override[p] ELSE base[p]]

\* themes/base: the parts of the base theme the provider reads
baseTheme ==
    (<<"defaultMode">> :> "light")
    @@ (<<"global", "colors", "background", "dark">> :> "#111111")
    @@ (<<"global", "colors", "background", "light">> :> "#FFFFFF")
    @@ (<<"global", "colors", "brand">> :> "#7D4CDB")
    @@ (<<"global", "breakpoints", "small", "value">> :> "768")
    @@ (<<"global", "breakpoints", "medium", "value">> :> "1536")
    @@ (<<"global", "breakpoints", "large">> :> EmptyObject)
    @@ (<<"global", "deviceBreakpoints", "phone">> :> "small")
    @@ (<<"global", "deviceBreakpoints", "tablet">> :> "medium")
    @@ (<<"global", "deviceBreakpoints", "computer">> :> "large")
    @@ (<<"menu", "drop", "align", "top">> :> "top")
    @@ (<<"menu", "drop", "align", "left">> :> "left")

\* the pixel widths that occur, as the numbers their leaves denote
PixelValue(s) ==
    CASE s = "400" -> 400
      [] s = "768" -> 768
      [] s = "1536" -> 1536
      [] OTHER -> 0

\* concrete colours and their luminance class (utils/colors colorIsDark)
DarkColors == {"#000000", "#111111", "#7D4CDB"}
LightColors == {"#FFFFFF", "#EEEEEE"}

\* alias recursion of normalizeColor is cut at this depth
MaxAliasDepth == 3

RECURSIVE normalizeColorAt(_, _, _)
normalizeColorAt(color, thm, depth) ==
    LET colors == Sub(thm.tree, <<"global", "colors">>)
        named == IF IsLeaf(color) THEN Sub(colors, <<LeafOf(color)>>)
                 ELSE EmptyTree
        colorSpec == IF ~IsUndefined(named) THEN named ELSE color
        result ==
            IF thm.dark /\ ~IsUndefined(Sub(colorSpec, <<"dark">>))
            THEN Sub(colorSpec, <<"dark">>)
            ELSE IF ~thm.dark /\ ~IsUndefined(Sub(colorSpec, <<"light">>))
            THEN Sub(colorSpec, <<"light">>)
            ELSE colorSpec
    IN  IF depth > 0 /\ IsLeaf(result)
           /\ ~IsUndefined(Sub(colors, <<LeafOf(result)>>))
        THEN normalizeColorAt(result, thm, depth - 1)
        ELSE result

\* utils/colors normalizeColor: resolve a colour token of the theme, or a
\* colour with dark and light variants, under the theme's dark flag
normalizeColor(color, thm) == normalizeColorAt(color, thm, MaxAliasDepth)

\* the colour is a concrete one, whose luminance can be computed
Resolvable(color) ==
    IsLeaf(color) /\ LeafOf(color) \in DarkColors \cup LightColors

\* utils/background backgroundIsDark: the luminance class of a resolved
\* colour; with no resolvable colour the darkness of the mode stands
backgroundIsDark(color, thm) ==
    IF Resolvable(color) THEN LeafOf(color) \in DarkColors ELSE thm.dark

\* names of the theme's breakpoint table
BreakpointNames(tree) ==
    {p[3] : p \in {q \in DOMAIN tree :
                     HasPrefix(q, <<"global", "breakpoints">>) /\ Len(q) >= 3}}

Bounded(tree, name) ==
    <<"global", "breakpoints", name, "value">> \in DOMAIN tree

BoundOf(tree, name) ==
    PixelValue(tree[<<"global", "breakpoints", name, "value">>])

\* utils/responsive getBreakpoint: scan from the smallest bound to the
\* largest, the first breakpoint whose upper bound exceeds the width, else
\* the largest breakpoint (one without a bound comes last)
getBreakpoint(w, tree) ==
    LET names == BreakpointNames(tree)
        bounded == {n \in names : Bounded(tree, n) /\ BoundOf(tree, n) # 0}
        fits == {n \in bounded : BoundOf(tree, n) > w}
        least(S) == CHOOSE n \in S :
                        \A m \in S : BoundOf(tree, n) <= BoundOf(tree, m)
        most(S) == CHOOSE n \in S :
                        \A m \in S : BoundOf(tree, n) >= BoundOf(tree, m)
    IN  IF names = {} THEN Undefined
        ELSE IF fits # {} THEN least(fits)
        ELSE IF names \ bounded # {} THEN CHOOSE n \in names \ bounded : TRUE
        ELSE most(bounded)

\* utils/responsive getDeviceBreakpoint
getDeviceBreakpoint(type, tree) ==
    Get(tree, <<"global", "deviceBreakpoints", type>>)

\* languages/default.json: two of the default messages
defaultMessages ==
    (<<"pagination", "next">> :> "page {n}")
    @@ (<<"form", "required">> :> "required")

\* placeholder substitution of contexts/MessageContext format
Substitute(template, values) ==
    IF values = Undefined THEN template
    ELSE IF template = "page {n}" THEN "page 2"
    ELSE IF template = "seite {n}" THEN "seite 2"
    ELSE template

\* contexts/MessageContext format: look the message up by its key in the
\* table and substitute the placeholders from the options
format(o, table) ==
    IF o.id \in DOMAIN table THEN Substitute(table[o.id], o.values)
    ELSE Undefined

(***************************************************************************)
(* Grommet.js                                                              *)
(***************************************************************************)

\* /(tablet|ipad|playbook|silk)|(android(?!.*mobile))/i and
\* /Mobile|iPhone|Android/ are tested on token sequences; the first ignores
\* case, the second does not.
UATokens == {"iPad", "Silk", "Android", "android", "Mobile", "mobile",
             "iPhone", "iphone", "Windows"}

LowerCase(tok) ==
    CASE tok = "iPad" -> "ipad"
      [] tok = "Silk" -> "silk"
      [] tok = "Android" -> "android"
      [] tok = "Mobile" -> "mobile"
      [] tok = "iPhone" -> "iphone"
      [] tok = "Windows" -> "windows"
      [] OTHER -> tok

\* line 47
TabletTest(text) ==
    \E i \in 1..Len(text) :
        \/ LowerCase(text[i]) \in {"tablet", "ipad", "playbook", "silk"}
        \/ /\ LowerCase(text[i]) = "android"
           /\ ~\E j \in (i + 1)..Len(text) : LowerCase(text[j]) = "mobile"

\* line 50
PhoneTest(text) ==
    \E i \in 1..Len(text) : text[i] \in {"Mobile", "iPhone", "Android"}

\* the userAgent prop: absent, or a string (possibly empty)
NoUserAgent == [given |-> FALSE, text |-> << >>]
UserAgentOf(text) == [given |-> TRUE, text |-> text]

\* a plausible slip: the phone test placed before the tablet test
deviceResponsivePhoneFirst(ua, tree) ==
    IF ua.given /\ ua.text # << >>
    THEN IF PhoneTest(ua.text) THEN getDeviceBreakpoint("phone", tree)
         ELSE IF TabletTest(ua.text) THEN getDeviceBreakpoint("tablet", tree)
         ELSE getDeviceBreakpoint("computer", tree)
    ELSE Undefined

\* lines 37-56
deviceResponsive(ua, tree) ==
    IF ua.given /\ ua.text # << >>
    THEN IF TabletTest(ua.text) THEN getDeviceBreakpoint("tablet", tree)
         ELSE IF PhoneTest(ua.text) THEN getDeviceBreakpoint("phone", tree)
         ELSE getDeviceBreakpoint("computer", tree)
    ELSE Undefined

AlignPath == <<"menu", "drop", "align">>

\* a plausible slip: the special case of lines 81-89 left out
MenuAlignMerged(merged, override) == merged

\* lines 81-89: an alignment of the override replaces the merged one
MenuAlign(merged, override) ==
    IF Truthy(Sub(override, AlignPath))
    THEN LET others == {p \in DOMAIN merged : ~HasPrefix(p, AlignPath)}
             own == {p \in DOMAIN override : HasPrefix(p, AlignPath)}
         IN  [p \in others \cup own |->
                 IF p \in own THEN override[p] ELSE merged[p]]
    ELSE merged

\* a plausible slip: the mode prop ignored in favour of the theme's default
TentativeDarkDefaultOnly(mode, tree) == Get(tree, <<"defaultMode">>) = "dark"

\* line 94
TentativeDark(mode, tree) ==
    (IF TruthyStr(mode) THEN mode ELSE Get(tree, <<"defaultMode">>)) = "dark"

\* a plausible slip: line 96 left out, the mode's darkness stands
DarkFromBackgroundSkipped(color, thm) == thm.dark

\* line 96
DarkFromBackground(color, thm) == backgroundIsDark(color, thm)

\* lines 75-107: the theme, and the identity of this recomputation
ComposeTheme(override, bg, direction, mode, ver) ==
    LET tree == MenuAlign(deepMerge(baseTheme, override), override)
        themeBackground == Sub(tree, <<"global", "colors", "background">>)
        tentative == [tree |-> tree, dark |-> TentativeDark(mode, tree)]
        effective == IF Truthy(bg) THEN bg ELSE themeBackground
        color == normalizeColor(effective, tentative)
    IN  [ver |-> ver,
         tree |-> tree,
         dark |-> DarkFromBackground(color, tentative),
         baseBackground |-> effective,
         background |-> effective,
         dir |-> IF TruthyStr(direction) THEN direction
                 ELSE Get(tree, <<"dir">>)]

\* the messages prop: absent, or a table and possibly a format function,
\* which is a function from message keys to its result
MessageIds == {<<"pagination", "next">>, <<"form", "required">>,
               <<"missing", "key">>}
FormatResults == {Undefined, "", "custom"}
NoFormat == [id \in MessageIds |-> Undefined]
NoMessages ==
    [given |-> FALSE, messages |-> EmptyTree, hasFormat |-> FALSE,
     format |-> NoFormat]

\* lines 112-115
NextMessages(mp) ==
    deepMerge(defaultMessages, IF mp.given THEN mp.messages ELSE EmptyTree)

\* a plausible slip: the override's result tested for truthiness
PublishedFormatTruthy(mp, table, o) ==
    LET message == IF mp.given /\ mp.hasFormat THEN mp.format[o.id]
                   ELSE Undefined
    IN  IF TruthyStr(message) THEN message ELSE format(o, table)

\* lines 118-123
PublishedFormat(mp, table, o) ==
    LET message == IF mp.given /\ mp.hasFormat THEN mp.format[o.id]
                   ELSE Undefined
    IN  IF message # Undefined THEN message ELSE format(o, table)

\* a plausible slip: the device inference consulted before the state
ResponsiveDeviceFirst(state, ua, thm) ==
    LET device == deviceResponsive(ua, thm.tree)
    IN  IF TruthyStr(device) THEN device
        ELSE IF TruthyStr(state) THEN state
        ELSE getDeviceBreakpoint("tablet", thm.tree)

\* lines 139-142
Responsive(state, ua, thm) ==
    LET device == deviceResponsive(ua, thm.tree)
    IN  IF TruthyStr(state) THEN state
        ELSE IF TruthyStr(device) THEN device
        ELSE Get(thm.tree, <<"global", "deviceBreakpoints", "tablet">>)

\* a plausible slip: the width resolved against the base theme
onResizeBaseTheme(w, thm) == getBreakpoint(w, baseTheme)

\* lines 127-129: the value onResize, closed over thm, gives setResponsive
onResize(w, thm) == getBreakpoint(w, thm.tree)

\* line 64
ContainerTargetDefault(given, dom) ==
    IF given # Undefined THEN given
    ELSE IF dom THEN "document.body" ELSE Undefined

\* window.addEventListener('resize', fn)
AddListener(ls, fn) ==
    IF \E i \in 1..Len(ls) : ls[i] = fn THEN ls ELSE Append(ls, fn)

\* a plausible slip: the cleanup removes nothing
RemoveListenerNone(ls, fns) == ls

\* lines 134-136: window.removeEventListener('resize', fn) for the closure
\* the effect registered, if any
RemoveListener(ls, fns) ==
    SelectSeq(ls, LAMBDA l : \A i \in 1..Len(fns) : l # fns[i])

\* the resize event calls every listener in turn
RECURSIVE Dispatch(_, _, _)
Dispatch(ls, w, state) ==
    IF ls = << >> THEN state
    ELSE Dispatch(Tail(ls), w, onResize(w, Head(ls)))

(***************************************************************************)
(* Bounds and input domains.                                               *)
(***************************************************************************)
\* theme recomputations in one life of the provider
MaxRenders == 3
\* tokens in a user-agent string
MaxUALen == 3

Widths == {500, 1000, 2000}

Tree1(p, v) == p :> v

\* theme overrides
AlignOverride ==
    Tree1(<<"menu", "drop", "align", "bottom">>, "bottom")
    @@ Tree1(<<"menu", "drop", "align", "left">>, "right")
BreakpointOverride ==
    Tree1(<<"global", "breakpoints", "small", "value">>, "400")
    @@ Tree1(<<"global", "deviceBreakpoints", "phone">>, "medium")
ThemeProps ==
    {EmptyTree, AlignOverride, BreakpointOverride,
     Tree1(<<"menu", "drop", "elevation">>, "small"),
     Tree1(<<"global", "colors", "background">>, "#FFFFFF"),
     Tree1(<<"global", "colors", "background", "dark">>, "#000000"),
     Tree1(<<"global", "colors", "background">>, "bogus"),
     Tree1(<<"defaultMode">>, "dark")}
MainThemeProps == {EmptyTree, AlignOverride, BreakpointOverride}

\* backgrounds: colours, theme tokens, a pair of variants, no colour at all
VariantPair ==
    Tree1(<<"dark">>, "#000000") @@ Tree1(<<"light">>, "#FFFFFF")
Backgrounds ==
    {EmptyTree, LeafTree("#000000"), LeafTree("#FFFFFF"), LeafTree("brand"),
     LeafTree("background"), VariantPair, LeafTree("bogus")}
MainBackgrounds == {EmptyTree, LeafTree("#000000")}

ThemeModes == {Undefined, "dark", "light", "auto"}
MainThemeModes == {Undefined, "dark"}
Dirs == {Undefined, "rtl"}

AllUserAgents ==
    {NoUserAgent}
    \cup {UserAgentOf(t) : t \in UNION {[1..n -> UATokens] : n \in 0..MaxUALen}}
MainUserAgents ==
    {NoUserAgent, UserAgentOf(<< >>), UserAgentOf(<<"iPhone", "Mobile">>),
     UserAgentOf(<<"Windows">>)}

MessageTables ==
    {EmptyTree, Tree1(<<"pagination", "next">>, "seite {n}"),
     Tree1(<<"missing", "key">>, "found")}
MessageProps ==
    {NoMessages}
    \cup {[given |-> TRUE, messages |-> m, hasFormat |-> FALSE,
           format |-> NoFormat] : m \in MessageTables}
    \cup {[given |-> TRUE, messages |-> m, hasFormat |-> TRUE, format |-> f] :
            m \in MessageTables, f \in [MessageIds -> FormatResults]}
NoOpts == [id |-> << >>, values |-> Undefined]
Opts == {[id |-> i, values |-> v] : i \in MessageIds, v \in {Undefined, "2"}}

NoTheme ==
    [ver |-> 0, tree |-> EmptyTree, dark |-> FALSE,
     baseBackground |-> EmptyTree, background |-> EmptyTree,
     dir |-> Undefined]

(***************************************************************************)
(* The provider's life: mount, effects, prop changes, events, unmount.     *)
(***************************************************************************)
Blank ==
    /\ theme = NoTheme
    /\ containerTarget = Undefined
    /\ stateResponsive = Undefined
    /\ responsive = Undefined
    /\ listeners = << >>
    /\ cleanup = << >>
    /\ effectPending = FALSE
    /\ failed = FALSE
    /\ renders = 0
    /\ messages = EmptyTree
    /\ opts = NoOpts
    /\ formatted = Undefined
    /\ deviceResult = Undefined
    /\ lastEvent = "init"

Init ==
    /\ hasDOM \in BOOLEAN
    /\ phase = "unmounted"
    /\ themeProp \in MainThemeProps
    /\ background \in MainBackgrounds
    /\ themeMode \in MainThemeModes
    /\ dir = Undefined
    /\ userAgent \in MainUserAgents
    /\ containerTargetProp \in {Undefined, "node"}
    /\ messagesProp = NoMessages
    /\ width \in Widths
    /\ Blank

\* the first render (lines 60-168); its effect is scheduled
Mount ==
    /\ phase = "unmounted"
    /\ phase' = "mounted"
    /\ theme' = ComposeTheme(themeProp, background, dir, themeMode, 1)
    /\ renders' = 1
    /\ messages' = NextMessages(messagesProp)
    /\ containerTarget' = ContainerTargetDefault(containerTargetProp, hasDOM)
    /\ responsive' = Responsive(stateResponsive, userAgent, theme')
    /\ effectPending' = TRUE
    /\ lastEvent' = "mount"
    /\ UNCHANGED <<hasDOM, propVars, stateResponsive, width, listeners,
                   cleanup, failed, opts, formatted, deviceResult>>

\* the effect of lines 131-137 after a render that changed onResize: the
\* previous cleanup, the registration, one measurement, and the render the
\* state change causes.  window and document are named without a test, so
\* without them the effect throws.
FlushEffect ==
    /\ phase = "mounted"
    /\ effectPending
    /\ effectPending' = FALSE
    /\ lastEvent' = "effect"
    /\ IF hasDOM
       THEN /\ listeners' = AddListener(RemoveListener(listeners, cleanup),
                                        theme)
            /\ cleanup' = <<theme>>
            /\ stateResponsive' = onResize(width, theme)
            /\ responsive' = Responsive(stateResponsive', userAgent, theme)
            /\ UNCHANGED <<phase, failed>>
       ELSE /\ failed' = TRUE
            /\ phase' = "crashed"
            /\ UNCHANGED <<listeners, cleanup, stateResponsive, responsive>>
    /\ UNCHANGED <<hasDOM, propVars, theme, containerTarget, width, renders,
                   pureVars>>

\* a render with a new theme, background, themeMode or dir: the theme is
\* recomputed (line 107), onResize is a new closure (line 129) and the
\* effect is scheduled again (line 137)
SetThemeInput ==
    /\ phase = "mounted"
    /\ ~effectPending
    /\ renders < MaxRenders
    /\ \E tp \in MainThemeProps, bg \in MainBackgrounds,
          tm \in MainThemeModes, d \in Dirs :
        /\ \/ (bg = background /\ tm = themeMode /\ d = dir)
           \/ (tp = themeProp /\ tm = themeMode /\ d = dir /\ bg # background)
           \/ (tp = themeProp /\ bg = background /\ d = dir /\ tm # themeMode)
           \/ (tp = themeProp /\ bg = background /\ tm = themeMode /\ d # dir)
        /\ themeProp' = tp
        /\ background' = bg
        /\ themeMode' = tm
        /\ dir' = d
    /\ renders' = renders + 1
    /\ theme' = ComposeTheme(themeProp', background', dir', themeMode',
                             renders')
    /\ responsive' = Responsive(stateResponsive, userAgent, theme')
    /\ effectPending' = TRUE
    /\ lastEvent' = "props"
    /\ UNCHANGED <<hasDOM, phase, userAgent, containerTargetProp,
                   messagesProp, containerTarget, stateResponsive, width,
                   listeners, cleanup, failed, pureVars>>

\* a render with a new userAgent: no memo and no effect depends on it
SetUserAgent ==
    /\ phase = "mounted"
    /\ ~effectPending
    /\ \E ua \in MainUserAgents : ua # userAgent /\ userAgent' = ua
    /\ responsive' = Responsive(stateResponsive, userAgent', theme)
    /\ lastEvent' = "props"
    /\ UNCHANGED <<hasDOM, phase, themeProp, background, themeMode, dir,
                   containerTargetProp, messagesProp, theme, containerTarget,
                   stateResponsive, width, listeners, cleanup, effectPending,
                   failed, renders, pureVars>>

\* a render with unchanged props
Rerender ==
    /\ phase = "mounted"
    /\ ~effectPending
    /\ responsive' = Responsive(stateResponsive, userAgent, theme)
    /\ lastEvent' = "rerender"
    /\ UNCHANGED <<hasDOM, phase, propVars, theme, containerTarget,
                   stateResponsive, width, listeners, cleanup, effectPending,
                   failed, renders, pureVars>>

\* the viewport is resized: window dispatches 'resize' to its listeners,
\* and a state change renders the provider again.  A scheduled effect is
\* flushed before the next event is handled.
Resize ==
    /\ hasDOM
    /\ phase \in {"unmounted", "mounted", "removed"}
    /\ ~effectPending
    /\ \E w \in Widths : width' = w
    /\ stateResponsive' = Dispatch(listeners, width', stateResponsive)
    /\ responsive' = IF phase = "mounted"
                     THEN Responsive(stateResponsive', userAgent, theme)
                     ELSE responsive
    /\ lastEvent' = "resize"
    /\ UNCHANGED <<hasDOM, phase, propVars, theme, containerTarget, listeners,
                   cleanup, effectPending, failed, renders, pureVars>>

\* the scrollbar detector reports a change of scrollbar visibility: its
\* callback (lines 146-148) calls the onResize of the last render
ScrollbarChange ==
    /\ hasDOM
    /\ phase = "mounted"
    /\ ~effectPending
    /\ \E w \in Widths : width' = w
    /\ stateResponsive' = onResize(width', theme)
    /\ responsive' = Responsive(stateResponsive', userAgent, theme)
    /\ lastEvent' = "scrollbar"
    /\ UNCHANGED <<hasDOM, phase, propVars, theme, containerTarget, listeners,
                   cleanup, effectPending, failed, renders, pureVars>>

\* unmount: the effect's cleanup (lines 134-136)
Unmount ==
    /\ phase = "mounted"
    /\ ~effectPending
    /\ phase' = "removed"
    /\ listeners' = RemoveListener(listeners, cleanup)
    /\ cleanup' = << >>
    /\ lastEvent' = "unmount"
    /\ UNCHANGED <<hasDOM, propVars, theme, containerTarget, stateResponsive,
                   responsive, width, effectPending, failed, renders,
                   pureVars>>

Next ==
    \/ Mount
    \/ FlushEffect
    \/ SetThemeInput
    \/ SetUserAgent
    \/ Rerender
    \/ Resize
    \/ ScrollbarChange
    \/ Unmount

Spec == Init /\ [][Next]_vars

(***************************************************************************)
(* Theme composition alone, over the larger input domains.                 *)
(***************************************************************************)
InitTheme ==
    /\ hasDOM = TRUE
    /\ phase = "theme"
    /\ themeProp \in ThemeProps
    /\ background \in Backgrounds
    /\ themeMode \in ThemeModes
    /\ dir \in Dirs
    /\ userAgent = NoUserAgent
    /\ containerTargetProp = Undefined
    /\ messagesProp = NoMessages
    /\ width = 1000
    /\ Blank

\* the theme memo of a render (lines 75-107)
ThemeRender ==
    /\ phase = "theme"
    /\ renders = 0
    /\ renders' = 1
    /\ theme' = ComposeTheme(themeProp, background, dir, themeMode, 1)
    /\ lastEvent' = "theme"
    /\ UNCHANGED <<hasDOM, phase, propVars, containerTarget, stateResponsive,
                   responsive, width, listeners, cleanup, effectPending,
                   failed, pureVars>>

NextTheme == ThemeRender

SpecTheme == InitTheme /\ [][NextTheme]_vars

(***************************************************************************)
(* Device classification alone, over all bounded user-agent strings.       *)
(***************************************************************************)
InitDevice ==
    /\ hasDOM = TRUE
    /\ phase = "device"
    /\ themeProp \in {EmptyTree, BreakpointOverride}
    /\ background = EmptyTree
    /\ themeMode = Undefined
    /\ dir = Undefined
    /\ userAgent \in AllUserAgents
    /\ containerTargetProp = Undefined
    /\ messagesProp = NoMessages
    /\ width = 1000
    /\ Blank

\* the call of line 141 in a render
DeviceRender ==
    /\ phase = "device"
    /\ renders = 0
    /\ renders' = 1
    /\ theme' = ComposeTheme(themeProp, background, dir, themeMode, 1)
    /\ deviceResult' = deviceResponsive(userAgent, theme'.tree)
    /\ lastEvent' = "device"
    /\ UNCHANGED <<hasDOM, phase, propVars, containerTarget, stateResponsive,
                   responsive, width, listeners, cleanup, effectPending,
                   failed, messages, opts, formatted>>

NextDevice == DeviceRender

SpecDevice == InitDevice /\ [][NextDevice]_vars

(***************************************************************************)
(* Message composition alone.                                              *)
(***************************************************************************)
InitMessages ==
    /\ hasDOM = TRUE
    /\ phase = "messages"
    /\ themeProp = EmptyTree
    /\ background = EmptyTree
    /\ themeMode = Undefined
    /\ dir = Undefined
    /\ userAgent = NoUserAgent
    /\ containerTargetProp = Undefined
    /\ messagesProp \in MessageProps
    /\ width = 1000
    /\ Blank

\* the messages memo of a render (lines 109-125)
MessagesRender ==
    /\ phase = "messages"
    /\ phase' = "published"
    /\ messages' = NextMessages(messagesProp)
    /\ lastEvent' = "messages"
    /\ UNCHANGED <<hasDOM, propVars, liveVars, opts, formatted, deviceResult>>

\* a descendant calls the published format function (lines 118-123)
CallFormat ==
    /\ phase = "published"
    /\ \E o \in Opts : opts' = o
    /\ formatted' = PublishedFormat(messagesProp, messages, opts')
    /\ lastEvent' = "format"
    /\ UNCHANGED <<hasDOM, phase, propVars, liveVars, messages, deviceResult>>

NextMessagesStep == MessagesRender \/ CallFormat

SpecMessages == InitMessages /\ [][NextMessagesStep]_vars

(***************************************************************************)
(* Properties.                                                             *)
(***************************************************************************)
TabletDefault(tree) == Get(tree, <<"global", "deviceBreakpoints", "tablet">>)

\* C1: at every render the published responsive value is the state
\* breakpoint if it is set, otherwise the breakpoint inferred from the
\* userAgent prop if there is one, otherwise the theme's tablet device
\* breakpoint; a later link is used only when the earlier ones give nothing.
C1_FallbackChain ==
    phase = "mounted" =>
        LET device == deviceResponsive(userAgent, theme.tree)
        IN  /\ stateResponsive # Undefined => responsive = stateResponsive
            /\ stateResponsive = Undefined /\ device # Undefined
                   => responsive = device
            /\ stateResponsive = Undefined /\ device = Undefined
                   => responsive = TabletDefault(theme.tree)

\* the first render of a phone: no state yet, the device decides
C1_Witness ==
    /\ phase = "mounted"
    /\ stateResponsive = Undefined
    /\ userAgent = UserAgentOf(<<"iPhone", "Mobile">>)
    /\ themeProp = EmptyTree
    /\ responsive = "small"

\* C2: after a width measurement the state is the breakpoint of the
\* measured width under the current theme, whatever it was before, and
\* every render until the next measurement publishes that state, never the
\* device-inferred breakpoint or the tablet default.
C2_MeasuredStateWins ==
    phase = "mounted" =>
        /\ stateResponsive # Undefined => responsive = stateResponsive
        /\ ~effectPending =>
               /\ stateResponsive = getBreakpoint(width, theme.tree)
               /\ responsive = getBreakpoint(width, theme.tree)

\* a phone whose viewport was resized to a large width
C2_Witness ==
    /\ phase = "mounted"
    /\ lastEvent = "resize"
    /\ userAgent = UserAgentOf(<<"iPhone", "Mobile">>)
    /\ deviceResponsive(userAgent, theme.tree) = "small"
    /\ width = 2000
    /\ stateResponsive = "large"
    /\ responsive = "large"

\* the device class the four rules give a non-empty user-agent string
C3Class(text) ==
    IF TabletTest(text) THEN "tablet"
    ELSE IF PhoneTest(text) THEN "phone"
    ELSE "computer"

\* C3: classification applies its rules in order, first match wins: a
\* tablet signature gives tablet, otherwise Mobile, iPhone or Android gives
\* phone, otherwise a non-empty string gives computer, and an empty or
\* absent string gives undefined; the result is the theme's device
\* breakpoint of that class.
C3_Classification ==
    (phase = "device" /\ renders = 1) =>
        IF userAgent.given /\ Len(userAgent.text) > 0
        THEN /\ C3Class(userAgent.text) \in {"tablet", "phone", "computer"}
             /\ deviceResult =
                    theme.tree[<<"global", "deviceBreakpoints",
                                 C3Class(userAgent.text)>>]
        ELSE deviceResult = Undefined

\* a string with both a tablet and a phone signature is a tablet
C3_Witness ==
    /\ phase = "device"
    /\ renders = 1
    /\ themeProp = EmptyTree
    /\ userAgent = UserAgentOf(<<"iPad", "Mobile">>)
    /\ deviceResult = "medium"

\* the dark flag the composition gives under another themeMode
DarkUnder(mode) ==
    ComposeTheme(themeProp, background, dir, mode, 1).dark

\* C4 as stated: with an explicit background prop the dark flag is the
\* same for every themeMode.
C4_AnyBackground ==
    (phase = "theme" /\ renders = 1 /\ Truthy(background)) =>
        \A mode \in ThemeModes : DarkUnder(mode) = theme.dark

\* the colour a background names without dark and light variants, if any
ConcreteColor(bg, tree) ==
    LET named == IF IsLeaf(bg)
                 THEN Sub(tree, <<"global", "colors", LeafOf(bg)>>)
                 ELSE EmptyTree
    IN  IF IsLeaf(bg) /\ IsUndefined(named) /\ Resolvable(bg) THEN LeafOf(bg)
        ELSE IF IsLeaf(named) /\ Resolvable(named)
                /\ IsUndefined(Sub(tree, <<"global", "colors", LeafOf(named)>>))
        THEN LeafOf(named)
        ELSE Undefined

\* C4, amended: with an explicit background prop that is a concrete colour,
\* or a theme token naming one, the dark flag is the luminance class of
\* that colour and the same for every themeMode.
C4_ConcreteBackground ==
    (phase = "theme" /\ renders = 1 /\ Truthy(background)
     /\ ConcreteColor(background, theme.tree) # Undefined) =>
        /\ theme.dark = (ConcreteColor(background, theme.tree) \in DarkColors)
        /\ \A mode \in ThemeModes : DarkUnder(mode) = theme.dark

\* a black background under the light mode
C4_Witness ==
    /\ phase = "theme"
    /\ renders = 1
    /\ background = LeafTree("#000000")
    /\ themeMode = "light"
    /\ theme.dark = TRUE

\* C5 as stated: themeMode 'dark' and no background prop give dark = true.
C5_DarkModeAlwaysDark ==
    (phase = "theme" /\ renders = 1 /\ themeMode = "dark"
     /\ ~Truthy(background)) => theme.dark = TRUE

\* C5, amended: themeMode 'dark' and no background prop give the luminance
\* class of the theme's declared background resolved under the dark flag
\* of the mode: true when its dark variant is a dark colour, as in the base
\* theme, and false when the theme declares a light colour.
C5_DarkModeDeclaredBackground ==
    (phase = "theme" /\ renders = 1 /\ themeMode = "dark"
     /\ ~Truthy(background)) =>
        LET declared == Sub(theme.tree, <<"global", "colors", "background">>)
        IN  /\ theme.background = declared
            /\ Get(declared, <<"dark">>) \in DarkColors => theme.dark = TRUE
            /\ (IsLeaf(declared) /\ LeafOf(declared) \in LightColors)
                   => theme.dark = FALSE

\* the base theme under the dark mode
C5_Witness ==
    /\ phase = "theme"
    /\ renders = 1
    /\ themeMode = "dark"
    /\ background = EmptyTree
    /\ themeProp = EmptyTree
    /\ theme.dark = TRUE

\* the darkness the mode asks for
ModeDark ==
    (IF themeMode # Undefined THEN themeMode
     ELSE theme.tree[<<"defaultMode">>]) = "dark"

C7_MenuAlignReplaced ==
    (phase = "theme" /\ renders = 1) =>
        IF ~IsUndefined(Sub(themeProp, AlignPath))
        THEN Sub(theme.tree, AlignPath) = Sub(themeProp, AlignPath)
        ELSE /\ Sub(theme.tree, AlignPath)
                    = Sub(deepMerge(baseTheme, themeProp), AlignPath)
             /\ Sub(theme.tree, AlignPath) = Sub(baseTheme, AlignPath)

\* an override without 'top': the base's 'top' is gone
C7_Witness ==
    /\ phase = "theme"
    /\ renders = 1
    /\ themeProp = AlignOverride
    /\ <<"menu", "drop", "align", "top">> \notin DOMAIN theme.tree
    /\ theme.tree[<<"menu", "drop", "align", "left">>] = "right"

\* C8: the published format function returns the result of the caller's
\* format function when there is one and its result is not undefined
\* (falsy results such as the empty string included), and otherwise the
\* standard formatting against the merged message table.
C8_FormatOverride ==
    lastEvent = "format" =>
        LET table == deepMerge(defaultMessages,
                               IF messagesProp.given
                               THEN messagesProp.messages ELSE EmptyTree)
            own == messagesProp.given /\ messagesProp.hasFormat
        IN  IF own /\ messagesProp.format[opts.id] # Undefined
            THEN formatted = messagesProp.format[opts.id]
            ELSE formatted = format(opts, table)

\* an override that returns the empty string for a key with a default
C8_Witness ==
    /\ lastEvent = "format"
    /\ messagesProp.hasFormat
    /\ opts.id = <<"form", "required">>
    /\ messagesProp.format[opts.id] = ""
    /\ formatted = ""
    /\ format(opts, messages) = "required"

\* C9: without a global document and window no operation of the provider
\* fails: containerTarget defaults to undefined, and the registration and
\* the measurement do nothing.
C9_NoFailureWithoutDOM ==
    ~hasDOM =>
        /\ ~failed
        /\ phase # "crashed"
        /\ (phase = "mounted" /\ containerTargetProp = Undefined)
               => containerTarget = Undefined

\* C10, its state part: once the effect has run the one listener is the
\* onResize of the current theme and the state is a measurement against
\* that theme; while an effect is scheduled the only listener there can be
\* is the previous theme's; before mount and after unmount there is none.
C10_ListenerState ==
    /\ (hasDOM /\ phase = "mounted" /\ ~effectPending) =>
           /\ listeners = <<theme>>
           /\ cleanup = <<theme>>
           /\ stateResponsive = getBreakpoint(width, listeners[1].tree)
    /\ (phase = "mounted" /\ effectPending) =>
           /\ Len(listeners) = IF renders > 1 THEN 1 ELSE 0
           /\ cleanup = listeners
           /\ \A i \in 1..Len(listeners) : listeners[i].ver = theme.ver - 1
    /\ phase \in {"unmounted", "removed"} => listeners = << >>

\* C10: over any sequence of mount, theme changes, resize events and
\* unmount, a mounted provider has exactly one resize listener, bound to
\* the current theme; each activation or theme change removes the previous
\* listener, registers and measures once; after unmount no listener is
\* left and a resize event does not change the state.
C10_ListenerLifecycle ==
    /\ []C10_ListenerState
    /\ [][phase = "removed" => stateResponsive' = stateResponsive]_vars

\* a theme change whose effect has replaced the listener
C10_Witness ==
    /\ hasDOM
    /\ phase = "mounted"
    /\ lastEvent = "effect"
    /\ renders = 2
    /\ themeProp = BreakpointOverride
    /\ listeners = <<theme>>
    /\ width = 500
    /\ stateResponsive = "medium"

====
